---- MODULE Spec2Model ----
(***************************************************************************)
(* A model of mlua's dynamic value layer (src/src/value.rs, src/src/types.rs): *)
(* the tagged Value, its equality and string conversion, the MultiValue     *)
(* container with its per-instance buffer pool, the multi-value conversion, *)
(* and the collaborators value.rs calls into (registry handles, the         *)
(* reentrant lock, the stack guard), which are modelled from spec.md where  *)
(* their code is not part of src/.                                          *)
(*                                                                         *)
(* The module holds several specifications, one per group of operations;   *)
(* each leaves the variables of the other groups at their idle values.     *)
(***************************************************************************)
EXTENDS Integers, Sequences, FiniteSets, TLC

VARIABLES
    va, vb, vc, v_op,             \* the Values operated on, last result
    stack, ts_op,                 \* VM operand stack, last to_string call
    reg, pending, in_vm, ref_op,  \* registry handles
    owner, holds, tpc,            \* reentrant lock
    conts, pool, mv_log,          \* MultiValue containers, buffer pools, op log
    cv_values, call, cv_op,       \* conversions: values, the call made, its result
    pp                            \* pretty-printer: heap, frames, visited, output

valVars  == <<va, vb, vc, v_op>>
tsVars   == <<stack, ts_op>>
refVars  == <<reg, pending, in_vm, ref_op>>
lockVars == <<owner, holds, tpc>>
mvVars   == <<conts, pool, mv_log>>
cvVars   == <<cv_values, call, cv_op>>
vars == <<va, vb, vc, v_op, stack, ts_op, reg, pending, in_vm, ref_op,
          owner, holds, tpc, conts, pool, mv_log, cv_values, call, cv_op, pp>>

(***************************************************************************)
(* Bounds of the model.                                                    *)
(***************************************************************************)
NumVMs == 2
VMs == 1..NumVMs

(***************************************************************************)
(* The Value enum (value.rs:34-66).  A handle variant wraps a ValueRef,    *)
(* [vm, slot]: the instance that produced it and its registry slot.        *)
(* Integer n stands for big * 2^53 + lo, Number for big * 2^53 + half / 2  *)
(* (or NaN), so that the values around the float's exact-integer range are *)
(* present without large machine integers.                                 *)
(***************************************************************************)
Nil == [tag |-> "Nil"]
Boolean(b) == [tag |-> "Boolean", b |-> b]
LightUserData(p) == [tag |-> "LightUserData", ptr |-> p]
Integer(big, lo) == [tag |-> "Integer", big |-> big, lo |-> lo]
Number(big, half) == [tag |-> "Number", nan |-> FALSE, big |-> big, half |-> half]
NaN == [tag |-> "Number", nan |-> TRUE, big |-> 0, half |-> 0]
ValueRef(vm, slot) == [vm |-> vm, slot |-> slot]
Handle(tag, vm, slot) == [tag |-> tag, ref |-> ValueRef(vm, slot)]
ErrorValue(e) == [tag |-> "Error", err |-> e]
NULL == LightUserData(0)

HandleTags == {"String", "Table", "Function", "Thread", "UserData"}
StackTags == {"Table", "Function", "Thread", "UserData"}
IsHandle(v) == v.tag \in HandleTags

\* The objects of every instance's heap: slot -> kind of object.  Slots 1, 2
\* are tables, 3 a function, 4 a thread, 5, 6 userdata, 7, 8 strings.
SlotTag(s) ==
    CASE s \in {1, 2} -> "Table"
      [] s = 3 -> "Function"
      [] s = 4 -> "Thread"
      [] s \in {5, 6} -> "UserData"
      [] OTHER -> "String"
Slots == 1..8
\* Tables in slot 2 and userdata in slot 6 carry a metatable with __eq.
HasEqMetamethod(r) == r.slot \in {2, 6}
\* The byte content of the interned strings: slot 7 is "a", slot 8 is "b"
\* on instance 1 and "a" on the others.
StringBytes(r) == IF r.slot = 7 \/ r.vm > 1 THEN <<97>> ELSE <<98>>

Scalars ==
    {Nil, Boolean(FALSE), Boolean(TRUE), NULL, LightUserData(16),
     Integer(0, 1), Integer(0, 2), Integer(1, 1),
     Number(0, 2), Number(0, 3), Number(1, 0), NaN,
     ErrorValue(1), ErrorValue(2)}
Handles == {Handle(SlotTag(s), vm, s) : vm \in VMs, s \in Slots}
Values == Scalars \cup Handles

(***************************************************************************)
(* Results of the comparisons carry, beside the value, the uses made of    *)
(* handles: <<vm, ref>> says that ref was read on instance vm.             *)
(***************************************************************************)
Res(val, uses) == [val |-> val, uses |-> uses]
Bool2Res(b) == IF b THEN "true" ELSE "false"
OwnUse(r) == <<r.vm, r>>

\* ValueRef's PartialEq: identity of the registry slot, read on the left
\* operand's instance; a handle of another instance is a panic.
ValueRef_eq(a, b) ==
    IF a.vm # b.vm
    THEN Res("panic", {<<a.vm, a>>, <<a.vm, b>>})
    ELSE Res(Bool2Res(a.slot = b.slot), {<<a.vm, a>>, <<a.vm, b>>})

\* String's PartialEq: byte content, each string read on its own instance.
String_eq(a, b) ==
    Res(Bool2Res(StringBytes(a) = StringBytes(b)), {OwnUse(a), OwnUse(b)})

\* `a as Number` for an Integer: exact up to 2^53, round-half-even above.
IntToNumber(i) ==
    IF i.big = 0 THEN Number(0, 2 * i.lo)
    ELSE Number(i.big, 2 * (CASE i.lo % 4 = 1 -> i.lo - 1
                              [] i.lo % 4 = 3 -> i.lo + 1
                              [] OTHER -> i.lo))
\* f64 `==`: NaN equals nothing.
Number_eq(x, y) == ~x.nan /\ ~y.nan /\ x.big = y.big /\ x.half = y.half

\* A mutant: lua_rawequal on the left operand's instance with no look at
\* the instance of the right operand.
eq_ref_Unchecked(a, b) ==
    IF a.tag = "String" THEN String_eq(a.ref, b.ref)
    ELSE Res(Bool2Res(a.ref.slot = b.ref.slot),
             {<<a.ref.vm, a.ref>>, <<a.ref.vm, b.ref>>})

\* impl PartialEq for Value, the arms of two handles of the same variant:
\* each delegates to the handle type's own `==`.
eq_ref(a, b) ==
    IF a.tag = "String" THEN String_eq(a.ref, b.ref)
    ELSE ValueRef_eq(a.ref, b.ref)

\* A mutant: two Error values compared by their content.
eq_other_ErrorByContent(a, b) ==
    IF a.tag = "Error" /\ b.tag = "Error"
    THEN Res(Bool2Res(a.err = b.err), {})
    ELSE Res("false", {})

\* A mutant: the null LightUserData taken for Nil.
eq_other_NullIsNil(a, b) ==
    IF {a, b} = {Nil, NULL} THEN Res("true", {}) ELSE Res("false", {})

\* impl PartialEq for Value, the last arm: `_ => false`.
eq_other(a, b) == Res("false", {})

\* impl PartialEq for Value
eq(a, b) ==
    CASE a.tag = "Nil" /\ b.tag = "Nil" -> Res("true", {})
      [] a.tag = "Boolean" /\ b.tag = "Boolean" -> Res(Bool2Res(a.b = b.b), {})
      [] a.tag = "LightUserData" /\ b.tag = "LightUserData" ->
            Res(Bool2Res(a.ptr = b.ptr), {})
      [] a.tag = "Integer" /\ b.tag = "Integer" ->
            Res(Bool2Res(a.big = b.big /\ a.lo = b.lo), {})
      [] a.tag = "Integer" /\ b.tag = "Number" ->
            Res(Bool2Res(Number_eq(IntToNumber(a), b)), {})
      [] a.tag = "Number" /\ b.tag = "Integer" ->
            Res(Bool2Res(Number_eq(a, IntToNumber(b))), {})
      [] a.tag = "Number" /\ b.tag = "Number" -> Res(Bool2Res(Number_eq(a, b)), {})
      [] a.tag = b.tag /\ a.tag \in HandleTags -> eq_ref(a, b)
      [] OTHER -> eq_other(a, b)

\* Value::is_nil and Value::is_null: `self == &Nil`, `self == &Self::NULL`.
is_nil(v) == eq(v, Nil).val = "true"
is_null(v) == eq(v, NULL).val = "true"

\* Table::equals and AnyUserData::equals: both operands are brought onto the
\* left operand's instance; __eq of the left, else of the right operand is
\* called and its outcome mm (true, false or a raised error) returned; with
\* no metamethod the comparison is by reference.
MetaOutcomes == {"true", "false", "err"}
Table_equals(a, b, mm) ==
    IF a.vm # b.vm THEN Res("panic", {<<a.vm, a>>, <<a.vm, b>>})
    ELSE IF HasEqMetamethod(a) \/ HasEqMetamethod(b)
         THEN Res(mm, {<<a.vm, a>>, <<a.vm, b>>})
         ELSE ValueRef_eq(a, b)

\* A mutant: equals hands every pair of a Table and a UserData, also a mixed
\* one, to the metamethod-aware comparison.
equals_MixedMeta(a, b, mm) ==
    IF a.tag \in {"Table", "UserData"} /\ b.tag \in {"Table", "UserData"}
    THEN Table_equals(a.ref, b.ref, mm)
    ELSE eq(a, b)

\* Value::equals
equals(a, b, mm) ==
    CASE a.tag = "Table" /\ b.tag = "Table" -> Table_equals(a.ref, b.ref, mm)
      [] a.tag = "UserData" /\ b.tag = "UserData" -> Table_equals(a.ref, b.ref, mm)
      [] OTHER -> eq(a, b)

\* ValueRef::to_pointer: the address of the object, read on the handle's own
\* instance; distinct objects have distinct addresses.
ValueRef_to_pointer(r) == 4096 + (r.vm - 1) * Cardinality(Slots) + r.slot

\* A mutant: to_pointer with no arm for String.
to_pointer_NoString(v) ==
    CASE v.tag = "LightUserData" -> Res(v.ptr, {})
      [] IsHandle(v) /\ v.tag # "String" ->
            Res(ValueRef_to_pointer(v.ref), {OwnUse(v.ref)})
      [] OTHER -> Res(0, {})

\* Value::to_pointer
to_pointer(v) ==
    CASE v.tag = "LightUserData" -> Res(v.ptr, {})
      [] IsHandle(v) -> Res(ValueRef_to_pointer(v.ref), {OwnUse(v.ref)})
      [] OTHER -> Res(0, {})

(***************************************************************************)
(* Value::cmp (value.rs:447-485).  An Ordering is "Less", "Equal" or       *)
(* "Greater".                                                              *)
(***************************************************************************)
Ord(less, greater) == IF less THEN "Less" ELSE IF greater THEN "Greater" ELSE "Equal"
Reverse(o) == CASE o = "Less" -> "Greater" [] o = "Greater" -> "Less" [] OTHER -> o

\* f64 `<`: false when either side is NaN.
Number_lt(x, y) ==
    ~x.nan /\ ~y.nan /\ (x.big < y.big \/ (x.big = y.big /\ x.half < y.half))
\* The inner fn cmp_num: Less if a < b, Greater if a > b, else Equal.
cmp_num(a, b) == Ord(Number_lt(a, b), Number_lt(b, a))
\* i64's Ord
Integer_cmp(a, b) ==
    Ord(a.big < b.big \/ (a.big = b.big /\ a.lo < b.lo),
        a.big > b.big \/ (a.big = b.big /\ a.lo > b.lo))
\* bool's Ord: false < true
Boolean_cmp(a, b) == Ord(~a /\ b, a /\ ~b)
\* [u8]'s Ord: lexicographic
RECURSIVE bytes_cmp(_, _)
bytes_cmp(a, b) ==
    IF a = <<>> \/ b = <<>> THEN Ord(a = <<>> /\ b # <<>>, a # <<>> /\ b = <<>>)
    ELSE IF Head(a) # Head(b) THEN Ord(Head(a) < Head(b), Head(a) > Head(b))
    ELSE bytes_cmp(Tail(a), Tail(b))
IsNullPtr(v) == v.tag = "LightUserData" /\ v.ptr = 0
IsNum(v) == v.tag \in {"Integer", "Number"}
AsNumber(v) == IF v.tag = "Integer" THEN IntToNumber(v) ELSE v

\* A mutant: cmp without the arms of the null LightUserData, which is then
\* ordered by its pointer with the remaining variants.
cmp_NoNullCase(a, b) ==
    CASE a.tag = "Nil" /\ b.tag = "Nil" -> "Equal"
      [] a.tag = "Nil" -> "Less"
      [] b.tag = "Nil" -> "Greater"
      [] a.tag = "Boolean" /\ b.tag = "Boolean" -> Boolean_cmp(a.b, b.b)
      [] a.tag = "Boolean" -> "Less"
      [] b.tag = "Boolean" -> "Greater"
      [] a.tag = "Integer" /\ b.tag = "Integer" -> Integer_cmp(a, b)
      [] IsNum(a) /\ IsNum(b) -> cmp_num(AsNumber(a), AsNumber(b))
      [] IsNum(a) -> "Less"
      [] IsNum(b) -> "Greater"
      [] a.tag = "String" /\ b.tag = "String" ->
            bytes_cmp(StringBytes(a.ref), StringBytes(b.ref))
      [] a.tag = "String" -> "Less"
      [] b.tag = "String" -> "Greater"
      [] OTHER -> Ord(to_pointer(a).val < to_pointer(b).val,
                      to_pointer(a).val > to_pointer(b).val)

\* Value::cmp; the arms are tried in the order of the source.
cmp(a, b) ==
    IF a.tag = "Nil" /\ b.tag = "Nil" THEN "Equal"
    ELSE IF a.tag = "Nil" THEN "Less"
    ELSE IF b.tag = "Nil" THEN "Greater"
    ELSE IF a.tag = "LightUserData" /\ b.tag = "LightUserData" /\ a.ptr = b.ptr
         THEN "Equal"
    ELSE IF IsNullPtr(a) THEN "Less"
    ELSE IF IsNullPtr(b) THEN "Greater"
    ELSE IF a.tag = "Boolean" /\ b.tag = "Boolean" THEN Boolean_cmp(a.b, b.b)
    ELSE IF a.tag = "Boolean" THEN "Less"
    ELSE IF b.tag = "Boolean" THEN "Greater"
    ELSE IF a.tag = "Integer" /\ b.tag = "Integer" THEN Integer_cmp(a, b)
    ELSE IF IsNum(a) /\ IsNum(b) THEN cmp_num(AsNumber(a), AsNumber(b))
    ELSE IF IsNum(a) THEN "Less"
    ELSE IF IsNum(b) THEN "Greater"
    ELSE IF a.tag = "String" /\ b.tag = "String"
         THEN bytes_cmp(StringBytes(a.ref), StringBytes(b.ref))
    ELSE IF a.tag = "String" THEN "Less"
    ELSE IF b.tag = "String" THEN "Greater"
    ELSE Ord(to_pointer(a).val < to_pointer(b).val,
             to_pointer(a).val > to_pointer(b).val)

(***************************************************************************)
(* The VM operand stack and Value::to_string.                              *)
(***************************************************************************)
\* The most slots the VM operand stack can hold (the VM's stack limit).
StackLimit == 4
\* The most slots a failed protected call leaves above its caller's top.
MaxResidue == 2

\* check_stack(state, n): whether n more slots fit on the stack.
check_stack(stk, n) == Len(stk) + n <= StackLimit

\* StackGuard::new records the top; dropping the guard cuts the stack back.
StackGuard_new(stk) == Len(stk)
StackGuard_drop(stk, top) == IF Len(stk) > top THEN SubSeq(stk, 1, top) ELSE stk

\* push_ref: the referenced object is pushed on its own instance's stack.
push_ref(stk, r) == Append(stk, [tag |-> "Object", ref |-> r])
\* pop_ref: the top slot is moved into the registry.
pop_ref(stk) == SubSeq(stk, 1, Len(stk) - 1)

\* protect_lua!(state, 1, 1, luaL_tolstring): on success the argument is
\* replaced by the resulting string; on an error raised inside, the call
\* returns Err with `residue` slots left above the slot of its argument.
ErrorObject == [tag |-> "ErrorObject"]
protect_tolstring(stk, ok, residue) ==
    IF ok
    THEN [ok |-> TRUE, stack |-> Append(pop_ref(stk), [tag |-> "LuaString"])]
    ELSE [ok |-> FALSE,
          stack |-> pop_ref(stk) \o [i \in 1..residue |-> ErrorObject]]

\* The text of the scalar variants.
ScalarText(v) ==
    CASE v.tag = "Nil" -> "nil"
      [] v.tag = "Boolean" -> IF v.b THEN "true" ELSE "false"
      [] v.tag = "LightUserData" -> IF v.ptr = 0 THEN "null" ELSE "lightuserdata: 0x10"
      [] v.tag = "Integer" -> "<integer digits>"
      [] v.tag = "Number" -> IF v.nan THEN "NaN" ELSE "<number digits>"
      [] v.tag = "Error" -> "<error message>"
      [] OTHER -> "<string bytes>"

\* Value::to_string, the arm of Table, Function, Thread and UserData, from
\* check_stack to the decoded string; the guard is not yet dropped.
to_string_ref(v, stk, mm_ok, residue, decode_ok) ==
    IF ~check_stack(stk, 3)
    THEN [ok |-> FALSE, path |-> "check_stack", stack |-> stk]
    ELSE LET pushed == push_ref(stk, v.ref)
             called == protect_tolstring(pushed, mm_ok, residue)
         IN  IF ~called.ok
             THEN [ok |-> FALSE, path |-> "metamethod", stack |-> called.stack]
             ELSE IF ~decode_ok
                  THEN [ok |-> FALSE, path |-> "decode", stack |-> pop_ref(called.stack)]
                  ELSE [ok |-> TRUE, path |-> "ok", stack |-> pop_ref(called.stack)]

\* A mutant: to_string with no StackGuard.
to_string_NoGuard(v, stk, mm_ok, residue, decode_ok) ==
    IF v.tag \in StackTags
    THEN to_string_ref(v, stk, mm_ok, residue, decode_ok)
    ELSE IF v.tag = "String" /\ ~decode_ok
         THEN [ok |-> FALSE, path |-> "decode", stack |-> stk]
         ELSE [ok |-> TRUE, path |-> ScalarText(v), stack |-> stk]

\* Value::to_string: the result and the stack it leaves.
to_string(v, stk, mm_ok, residue, decode_ok) ==
    IF v.tag \in StackTags
    THEN LET guard == StackGuard_new(stk)
             r == to_string_ref(v, stk, mm_ok, residue, decode_ok)
         IN  [ok |-> r.ok, path |-> r.path, stack |-> StackGuard_drop(r.stack, guard)]
    ELSE IF v.tag = "String" /\ ~decode_ok
         THEN [ok |-> FALSE, path |-> "decode", stack |-> stk]
         ELSE [ok |-> TRUE, path |-> ScalarText(v), stack |-> stk]

(***************************************************************************)
(* MultiValue (value.rs:750-856).  A VecDeque is its capacity and its      *)
(* items; a MultiValue is a deque and the instance it belongs to (0: None).*)
(***************************************************************************)
Max(a, b) == IF a >= b THEN a ELSE b
Buf(cap, items) == [cap |-> cap, items |-> items]
VecDeque_new == Buf(0, <<>>)
VecDeque_with_capacity(n) == Buf(n, <<>>)
\* VecDeque::reserve: room for `additional` more items; the buffer is
\* reallocated, at least doubling, only when they do not fit.
reserve(d, additional) ==
    IF d.cap >= Len(d.items) + additional THEN d
    ELSE Buf(Max(2 * d.cap, Len(d.items) + additional), d.items)
push_back(d, v) == Buf(reserve(d, 1).cap, Append(d.items, v))
VecDeque_from_iter(items) == Buf(Len(items), items)

\* pop_multivalue_from_pool: the buffer released last, if there is one.
pop_multivalue_from_pool(pl) ==
    IF pl = <<>> THEN [some |-> FALSE, pool |-> pl]
    ELSE [some |-> TRUE, deque |-> pl[Len(pl)], pool |-> SubSeq(pl, 1, Len(pl) - 1)]

\* A mutant: the buffer goes to the pool with its values still in it.
push_multivalue_to_pool_NotCleared(pl, d) == Append(pl, d)

\* push_multivalue_to_pool: the buffer, emptied, is added to the pool.
push_multivalue_to_pool(pl, d) == Append(pl, Buf(d.cap, <<>>))

MultiValue(d, lua, made) == [deque |-> d, lua |-> lua, made |-> made]

\* MultiValue::new
new == MultiValue(VecDeque_new, 0, "new")

\* impl FromIterator for MultiValue
from_iter(items) == MultiValue(VecDeque_from_iter(items), 0, "from_iter")

\* A mutant: the pool is not asked, a deque is always created.
with_lua_and_capacity_Fresh(pl, lua, capacity) ==
    [mv |-> MultiValue(VecDeque_with_capacity(capacity), lua, "with_lua"),
     pool |-> pl, from_pool |-> FALSE, grew |-> FALSE]

\* MultiValue::with_lua_and_capacity on the pool pl of instance lua: the
\* container, the pool left, whether the deque came from the pool and
\* whether reserve had to reallocate it.
with_lua_and_capacity(pl, lua, capacity) ==
    LET got == pop_multivalue_from_pool(pl)
    IN  IF got.some
        THEN LET d == IF capacity > 0 THEN reserve(got.deque, capacity) ELSE got.deque
             IN  [mv |-> MultiValue(d, lua, "with_lua"), pool |-> got.pool,
                  from_pool |-> TRUE, grew |-> d.cap # got.deque.cap]
        ELSE [mv |-> MultiValue(VecDeque_with_capacity(capacity), lua, "with_lua"),
              pool |-> pl, from_pool |-> FALSE, grew |-> FALSE]

\* impl Drop for MultiValue: the pools after the drop of mv.
drop(mv, pools) ==
    IF mv.lua # 0
    THEN [pools EXCEPT ![mv.lua] = push_multivalue_to_pool(@, mv.deque)]
    ELSE pools

\* A mutant: into_iter without mem::forget, so that Drop runs on the
\* container the deque was taken out of.
into_iter_NotForgotten(mv, pools) ==
    [items |-> mv.deque.items,
     pools |-> drop(MultiValue(VecDeque_new, mv.lua, mv.made), pools)]

\* impl IntoIterator for MultiValue: the items the iterator yields, and the
\* pools: the deque is taken out and the container forgotten, not dropped.
into_iter(mv, pools) == [items |-> mv.deque.items, pools |-> pools]

\* #[derive(Clone)] for MultiValue
clone_mv(mv) == MultiValue(VecDeque_from_iter(mv.deque.items), mv.lua, mv.made)

\* An item of the iterator extend_from_values consumes: Ok(v) or Err(e).
OkItem(v) == [ok |-> TRUE, v |-> v]
ErrItem(e) == [ok |-> FALSE, v |-> ErrorValue(e)]

\* A mutant: a failed item is skipped and the loop goes on.
RECURSIVE extend_from_values_SkipErr(_, _, _)
extend_from_values_SkipErr(d, iter, i) ==
    IF i > Len(iter) THEN [ok |-> TRUE, deque |-> d, consumed |-> Len(iter)]
    ELSE IF ~iter[i].ok THEN extend_from_values_SkipErr(d, iter, i + 1)
    ELSE extend_from_values_SkipErr(push_back(d, iter[i].v), iter, i + 1)

\* MultiValue::extend_from_values, from item i of iter on: the result, the
\* deque and the number of items taken from the iterator.
RECURSIVE extend_from_values(_, _, _)
extend_from_values(d, iter, i) ==
    IF i > Len(iter) THEN [ok |-> TRUE, deque |-> d, consumed |-> Len(iter)]
    ELSE IF ~iter[i].ok THEN [ok |-> FALSE, err |-> iter[i].v, deque |-> d, consumed |-> i]
    ELSE extend_from_values(push_back(d, iter[i].v), iter, i + 1)

(***************************************************************************)
(* FromLuaMulti (value.rs:888-940).                                        *)
(***************************************************************************)
\* A mutant: a conversion that stops at the values it was given.
from_lua_multi_NoPadding(values, k) ==
    [i \in 1..(IF k <= Len(values) THEN k ELSE Len(values)) |-> values[i]]

\* from_lua_multi of a consumer that expects k values: position i reads
\* the i-th value, or Nil when there is none; further values are ignored.
from_lua_multi(values, k) ==
    [i \in 1..k |-> IF i <= Len(values) THEN values[i] ELSE Nil]

(***************************************************************************)
(* FromLua in argument position (value.rs:705-748).  A Result is           *)
(* [ok |-> TRUE, v |-> value] or [ok |-> FALSE, err |-> error]; an         *)
(* Option<&str> is None or Some(s).                                        *)
(***************************************************************************)
Ok(v) == [ok |-> TRUE, v |-> v]
Err(e) == [ok |-> FALSE, err |-> e]
None == [some |-> FALSE]
Some(s) == [some |-> TRUE, s |-> s]

\* The host types converted to: Value itself, i64 and bool read strictly.
Targets == {"Value", "Integer", "Boolean"}
\* T::from_lua: Value converts from every value; the other targets fail on a
\* value of another type with a plain type-mismatch error.
from_lua(value, T) ==
    IF T = "Value" \/ value.tag = T THEN Ok(value)
    ELSE Err([kind |-> "FromLuaConversionError", from |-> value.tag, to |-> T])

\* Error::BadArgument { to, pos, name, cause }
BadArgument(to, pos, name, cause) ==
    [kind |-> "BadArgument", to |-> to, pos |-> pos, name |-> name, cause |-> cause]
\* Option<&str>::map(|s| s.to_string())
map_to_string(to) == IF to.some THEN Some(to.s) ELSE None

\* A mutant: the bad-argument error without the function's name.
from_lua_arg_NoName(arg, i, to, T) ==
    LET r == from_lua(arg, T)
    IN  IF r.ok THEN r ELSE Err(BadArgument(None, i, None, r.err))

\* FromLua::from_lua_arg
from_lua_arg(arg, i, to, T) ==
    LET r == from_lua(arg, T)
    IN  IF r.ok THEN r ELSE Err(BadArgument(map_to_string(to), i, None, r.err))

\* lua.stack_value(idx): the value in stack slot idx, counted from the
\* bottom (idx > 0) or from the top (idx < 0); the stack is not changed.
stack_value(stk, idx) == IF idx > 0 THEN stk[idx] ELSE stk[Len(stk) + 1 + idx]

\* FromLua::from_stack
from_stack(stk, idx, T) == from_lua(stack_value(stk, idx), T)

\* FromLua::from_stack_arg
from_stack_arg(stk, idx, i, to, T) ==
    LET r == from_stack(stk, idx, T)
    IN  IF r.ok THEN r ELSE Err(BadArgument(map_to_string(to), i, None, r.err))

(***************************************************************************)
(* FromLuaMulti on a list of arguments and on the operand stack            *)
(* (value.rs:897-939).  The consumer is a tuple of targets Ts.             *)
(***************************************************************************)
\* from_lua_multi of a tuple: the values are padded and truncated to the
\* tuple's length and each position converted by its target's from_lua;
\* the first failure is the result.
from_lua_multi_as(values, Ts) ==
    LET vs == from_lua_multi(values, Len(Ts))
        bad == {j \in 1..Len(Ts) : ~from_lua(vs[j], Ts[j]).ok}
    IN  IF bad = {} THEN Ok([j \in 1..Len(Ts) |-> from_lua(vs[j], Ts[j]).v])
        ELSE from_lua(vs[CHOOSE j \in bad : \A k \in bad : j <= k],
                      Ts[CHOOSE j \in bad : \A k \in bad : j <= k])

\* A mutant: from_lua_args that wraps a failure in a bad-argument error.
from_lua_args_Wrapping(args, i, to, Ts) ==
    LET r == from_lua_multi_as(args.deque.items, Ts)
    IN  IF r.ok THEN r ELSE Err(BadArgument(map_to_string(to), i, None, r.err))

\* FromLuaMulti::from_lua_args: `let _ = (i, to);` then from_lua_multi.
from_lua_args(args, i, to, Ts) == from_lua_multi_as(args.deque.items, Ts)

\* push_back of the nvals topmost stack values, deepest first:
\* `for idx in 0..nvals { values.push_back(lua.stack_value(-nvals + idx)) }`
RECURSIVE push_stack_values(_, _, _, _)
push_stack_values(d, stk, nvals, idx) ==
    IF idx >= nvals THEN d
    ELSE push_stack_values(push_back(d, stack_value(stk, idx - nvals)), stk, nvals, idx + 1)

\* lua_pop(state, n)
lua_pop(stk, n) == SubSeq(stk, 1, Len(stk) - n)

\* A mutant: the values are popped only when the conversion succeeded.
from_stack_multi_PopOnSuccess(stk, pl, lua, nvals, Ts) ==
    LET made == with_lua_and_capacity(pl, lua, nvals)
        values == [made.mv EXCEPT !.deque = push_stack_values(@, stk, nvals, 0)]
        res == from_lua_multi_as(values.deque.items, Ts)
    IN  [res |-> res, values |-> values, pool |-> made.pool,
         stack |-> IF nvals > 0 /\ res.ok THEN lua_pop(stk, nvals) ELSE stk]

\* FromLuaMulti::from_stack_multi: the result, the container handed to
\* from_lua_multi, the pool after with_lua_and_capacity and the stack left.
from_stack_multi(stk, pl, lua, nvals, Ts) ==
    LET made == with_lua_and_capacity(pl, lua, nvals)
        values == [made.mv EXCEPT !.deque = push_stack_values(@, stk, nvals, 0)]
    IN  [res |-> from_lua_multi_as(values.deque.items, Ts), values |-> values,
         pool |-> made.pool,
         stack |-> IF nvals > 0 THEN lua_pop(stk, nvals) ELSE stk]

\* FromLuaMulti::from_stack_args: `let _ = (i, to);` then from_stack_multi.
from_stack_args(stk, pl, lua, nargs, i, to, Ts) == from_stack_multi(stk, pl, lua, nargs, Ts)

(***************************************************************************)
(* IntoLuaMulti::push_into_stack_multi (value.rs:866-881).                 *)
(***************************************************************************)
\* lua.push_value(val): the value is pushed; a push that fails returns an
\* error and leaves the stack as it found it.
push_value(stk, v, ok) ==
    IF ok THEN [res |-> Ok(0), stack |-> Append(stk, v)]
    ELSE [res |-> Err([kind |-> "PushError"]), stack |-> stk]

\* `for val in &values { lua.push_value(val)?; }` from value j on; the push
\* of value fail_at fails (fail_at = 0: none does).
RECURSIVE push_values(_, _, _, _)
push_values(stk, items, j, fail_at) ==
    IF j > Len(items) THEN [res |-> Ok(Len(items)), stack |-> stk]
    ELSE LET r == push_value(stk, items[j], j # fail_at)
         IN  IF ~r.res.ok THEN r
             ELSE push_values(r.stack, items, j + 1, fail_at)

\* IntoLuaMulti::push_into_stack_multi: `converted` is the result of
\* into_lua_multi, Ok of a container or Err.
push_into_stack_multi(stk, converted, fail_at) ==
    IF ~converted.ok THEN [res |-> converted, stack |-> stk]
    ELSE LET values == converted.v
             len == Len(values.deque.items)
         IN  IF ~check_stack(stk, len + 1)
             THEN [res |-> Err([kind |-> "StackError"]), stack |-> stk]
             ELSE push_values(stk, values.deque.items, 1, fail_at)

(***************************************************************************)
(* Value::fmt_pretty (value.rs:487-522) on tables.  The printer is run as  *)
(* a stack of frames: a value still to be printed, or the closing brace of *)
(* a table whose entries are being printed.                                *)
(***************************************************************************)
ValueFrame(v, recursive) == [kind |-> "value", v |-> v, recursive |-> recursive]
CloseFrame(v) == [kind |-> "close", v |-> v]
RECURSIVE SortedSeq(_)
SortedSeq(S) ==
    IF S = {} THEN <<>>
    ELSE LET m == CHOOSE x \in S : \A y \in S : x <= y
         IN  <<m>> \o SortedSeq(S \ {m})

\* A mutant: the recursive arm taken without a look at the visited set.
fmt_pretty_descends_Unguarded(v, recursive, visited) ==
    v.tag = "Table" /\ recursive

\* Value::fmt_pretty, the guard of the first Table arm:
\* `Value::Table(t) if recursive && !visited.contains(&t.to_pointer())`.
fmt_pretty_descends(v, recursive, visited) ==
    v.tag = "Table" /\ recursive /\ to_pointer(v).val \notin visited

\* Value::fmt_pretty, the second Table arm: write!(fmt, "table: {:?}", ptr).
fmt_pretty_summary(v) == [text |-> "table: ", ptr |-> to_pointer(v).val]

\* Table::fmt_pretty: the table's pointer is put in the visited set, the
\* opening brace is written, and the values of its entries are printed in
\* the order of their keys, each by Value::fmt_pretty in recursive mode,
\* before the closing brace.
Table_fmt_pretty(v, entries, visited) ==
    [visited |-> visited \cup {to_pointer(v).val},
     out |-> [text |-> "{", ptr |-> to_pointer(v).val],
     frames |-> [j \in 1..Len(entries) |-> ValueFrame(entries[j], TRUE)]
                    \o <<CloseFrame(v)>>]

(***************************************************************************)
(* Idle values of each group of variables.                                 *)
(***************************************************************************)
NoOp == [op |-> "none"]
valIdle == va = Nil /\ vb = Nil /\ vc = Nil /\ v_op = NoOp
tsIdle == stack = <<>> /\ ts_op = NoOp
refIdle == reg = <<>> /\ pending = {} /\ in_vm = FALSE /\ ref_op = NoOp
lockIdle == owner = 0 /\ holds = 0 /\ tpc = <<>>
mvIdle == conts = <<>> /\ pool = <<>> /\ mv_log = NoOp
cvIdle == cv_values = <<>> /\ call = NoOp /\ cv_op = NoOp
ppIdle == pp = NoOp

(***************************************************************************)
(* SpecValue: the operations of one or two Values.  The operands are drawn *)
(* from Values; each action applies one operation and records its result.  *)
(***************************************************************************)
InitValue ==
    /\ ppIdle
    /\ va \in Values /\ vb \in Values /\ vc = Nil
    /\ v_op = NoOp
    /\ tsIdle /\ refIdle /\ lockIdle /\ mvIdle /\ cvIdle

OnlyVal == UNCHANGED <<tsVars, refVars, lockVars, mvVars, cvVars, pp>>

Do_eq ==
    /\ OnlyVal
    /\ v_op' = [op |-> "eq", val |-> eq(va, vb).val, uses |-> eq(va, vb).uses]
    /\ UNCHANGED <<va, vb, vc>>

Do_equals ==
    \E mm \in MetaOutcomes :
        /\ OnlyVal
        /\ v_op' = [op |-> "equals", val |-> equals(va, vb, mm).val,
                    uses |-> equals(va, vb, mm).uses, mm |-> mm]
        /\ UNCHANGED <<va, vb, vc>>

Do_to_pointer ==
    /\ OnlyVal
    /\ v_op' = [op |-> "to_pointer", val |-> "ptr", ptr |-> to_pointer(va).val,
                ptr_b |-> to_pointer(vb).val,
                uses |-> to_pointer(va).uses \cup to_pointer(vb).uses]
    /\ UNCHANGED <<va, vb, vc>>

Do_is_nil_is_null ==
    /\ OnlyVal
    /\ v_op' = [op |-> "is_nil_is_null", val |-> "bools", uses |-> {},
                is_nil |-> is_nil(va), is_null |-> is_null(va)]
    /\ UNCHANGED <<va, vb, vc>>

NextValue == Do_eq \/ Do_equals \/ Do_to_pointer \/ Do_is_nil_is_null

SpecValue == InitValue /\ [][NextValue]_vars

(***************************************************************************)
(* C4 and C10.                                                             *)
(***************************************************************************)
ForeignUse(u) == u[1] # u[2].vm

ReachesMetamethod(v) ==
    v.tag \in {"Table", "UserData"} /\ HasEqMetamethod(v.ref)
IsNaN(v) == v.tag = "Number" /\ v.nan

BothOf(tag) == va.tag = tag /\ vb.tag = tag
SameInstance == va.ref.vm = vb.ref.vm

\* C11: equals(a, b) lets an __eq metamethod decide only when a and b are
\* both Tables or both UserData (and one of them has the metamethod); for
\* every other pair of variants it returns what a == b returns and never
\* an error; a == b itself compares two Tables or two UserData by identity
\* whatever metamethods they have.
C11_MetamethodOnlyInEquals ==
    /\ v_op.op = "equals" =>
          IF BothOf("Table") \/ BothOf("UserData")
          THEN (SameInstance /\ (ReachesMetamethod(va) \/ ReachesMetamethod(vb)))
                  => v_op.val = v_op.mm
          ELSE v_op.val = eq(va, vb).val /\ v_op.val \in {"true", "false", "panic"}
    /\ v_op.op = "eq" =>
          /\ v_op.val \in {"true", "false", "panic"}
          /\ ((BothOf("Table") \/ BothOf("UserData")) /\ SameInstance)
                => v_op.val = Bool2Res(va.ref.slot = vb.ref.slot)

\* C11 witness: a Table and a UserData of one instance, both with __eq,
\* were compared by equals while the metamethod would have raised an error,
\* and the result is Ok(false).
C11_Witness ==
    /\ v_op.op = "equals" /\ va.tag = "Table" /\ vb.tag = "UserData"
    /\ ReachesMetamethod(va) /\ ReachesMetamethod(vb) /\ SameInstance
    /\ v_op.mm = "err" /\ v_op.val = "false"

(***************************************************************************)
(* C12.                                                                    *)
(***************************************************************************)
IntAndNumber(a, b) == a.tag = "Integer" /\ b.tag = "Number"

\* C12: under ==, an Integer and a Number are equal exactly when the
\* Integer, promoted to float (exact below 2^53, rounded above), is the
\* Number, and NaN equals no Integer; every other pair of different
\* variants is unequal; no value is both nil and null.
C12_CrossVariantEq ==
    /\ v_op.op = "eq" =>
          LET i == IF va.tag = "Integer" THEN va ELSE vb
              n == IF va.tag = "Integer" THEN vb ELSE va
          IN  /\ (IntAndNumber(va, vb) \/ IntAndNumber(vb, va)) =>
                    /\ n.nan => v_op.val = "false"
                    /\ (~n.nan /\ i.big = 0) =>
                          (v_op.val = "true" <=> (n.big = 0 /\ n.half = 2 * i.lo))
                    /\ ~n.nan =>
                          (v_op.val = "true" <=> IntToNumber(i) = n)
              /\ (va.tag # vb.tag /\ {va.tag, vb.tag} # {"Integer", "Number"})
                    => v_op.val = "false"
    /\ v_op.op = "is_nil_is_null" =>
          /\ ~(v_op.is_nil /\ v_op.is_null)
          /\ v_op.is_nil <=> va = Nil
          /\ v_op.is_null <=> va = NULL

\* C12 witness: the Integer 2^53 + 1 was compared with the Number 2^53 and
\* found equal, the promotion having rounded it.
C12_Witness ==
    /\ v_op.op = "eq" /\ va = Integer(1, 1) /\ vb = Number(1, 0)
    /\ v_op.val = "true"

(***************************************************************************)
(* C17.                                                                    *)
(***************************************************************************)
C17_Pointers ==
    v_op.op = "to_pointer" =>
        /\ va.tag \in {"Nil", "Boolean", "Integer", "Number", "Error"} => v_op.ptr = 0
        /\ va.tag = "LightUserData" => v_op.ptr = va.ptr
        /\ IsHandle(va) =>
              /\ v_op.ptr # 0
              /\ IsHandle(vb) => (v_op.ptr = v_op.ptr_b <=> va.ref = vb.ref)

C17_Repeated ==
    (v_op.op = "to_pointer" /\ v_op'.op = "to_pointer") => v_op'.ptr = v_op.ptr

\* C17: to_pointer is null for Nil, Boolean, Integer, Number and Error and
\* the stored pointer for LightUserData; for a String, Table, Function,
\* Thread or UserData it is a non-null pointer that two handles share
\* exactly when they are handles of the same object, and a call repeated on
\* the value returns the pointer again.
C17_ToPointer == []C17_Pointers /\ [][C17_Repeated]_vars

\* C17 witness: to_pointer of a String and of another String of the same
\* instance gave two different non-null pointers.
C17_Witness ==
    /\ v_op.op = "to_pointer" /\ va.tag = "String" /\ vb.tag = "String"
    /\ va.ref.vm = vb.ref.vm /\ va.ref # vb.ref
    /\ v_op.ptr # 0 /\ v_op.ptr_b # 0 /\ v_op.ptr # v_op.ptr_b

(***************************************************************************)
(* SpecCmp: cmp on every three Values a, b, c: the action records          *)
(* cmp(a, b), cmp(b, a), cmp(b, c) and cmp(a, c).                          *)
(***************************************************************************)
CmpValues == Values \cup {Integer(1, 0)}

InitCmp ==
    /\ ppIdle
    /\ va \in CmpValues /\ vb \in CmpValues /\ vc \in CmpValues
    /\ v_op = NoOp
    /\ tsIdle /\ refIdle /\ lockIdle /\ mvIdle /\ cvIdle

Do_cmp ==
    /\ OnlyVal
    /\ v_op' = [op |-> "cmp", ab |-> cmp(va, vb), ba |-> cmp(vb, va),
                bc |-> cmp(vb, vc), ac |-> cmp(va, vc)]
    /\ UNCHANGED <<va, vb, vc>>

NextCmp == Do_cmp

SpecCmp == InitCmp /\ [][NextCmp]_vars

\* The place of a value in the chain Nil < NULL < false < true < Integer 1
\* < Number 1.5 < String "a" < any Table; 0 for a value not in the chain.
ChainRank(v) ==
    CASE v = Nil -> 1
      [] v = NULL -> 2
      [] v = Boolean(FALSE) -> 3
      [] v = Boolean(TRUE) -> 4
      [] v = Integer(0, 1) -> 5
      [] v = Number(0, 3) -> 6
      [] v.tag = "String" -> IF StringBytes(v.ref) = <<97>> THEN 7 ELSE 0
      [] v.tag = "Table" -> 8
      [] OTHER -> 0

\* C13: cmp(a, b) is Less whenever a comes before b in the chain
\* Nil < NULL < false < true < Integer 1 < Number 1.5 < String "a" < Table,
\* and whenever a and b are Integers with a < b.
C13_CmpChain ==
    v_op.op = "cmp" =>
        /\ (ChainRank(va) > 0 /\ ChainRank(va) < ChainRank(vb)) => v_op.ab = "Less"
        /\ (va.tag = "Integer" /\ vb.tag = "Integer"
              /\ (va.big < vb.big \/ (va.big = vb.big /\ va.lo < vb.lo)))
              => v_op.ab = "Less"

\* C13 witness: the null LightUserData was compared with Boolean(false)
\* and is Less.
C13_Witness ==
    v_op.op = "cmp" /\ va = NULL /\ vb = Boolean(FALSE) /\ v_op.ab = "Less"

\* C14: cmp(a, b) is the reverse of cmp(b, a), and if neither cmp(a, b) nor
\* cmp(b, c) is Greater then cmp(a, c) is not Greater.
C14_TotalOrder ==
    v_op.op = "cmp" =>
        /\ v_op.ab = Reverse(v_op.ba)
        /\ (v_op.ab # "Greater" /\ v_op.bc # "Greater") => v_op.ac # "Greater"

(***************************************************************************)
(* SpecToString: values are pushed on and popped off the operand stack,    *)
(* and to_string is called at any depth, with every outcome of the stack   *)
(* check, of the __tostring metamethod and of the decoding.                *)
(***************************************************************************)
StackItems == {Nil, Integer(0, 1)}
\* The values to_string is called on: one or two of every variant.
ToStringInputs ==
    {Nil, Boolean(TRUE), NULL, LightUserData(16), Integer(0, 1), NaN, ErrorValue(1)}
        \cup {Handle(SlotTag(s), 1, s) : s \in {1, 3, 4, 5, 7}}
OnlyTs == UNCHANGED <<valVars, refVars, lockVars, mvVars, cvVars, pp>>

InitToString ==
    /\ ppIdle
    /\ stack = <<>> /\ ts_op = NoOp
    /\ valIdle /\ refIdle /\ lockIdle /\ mvIdle /\ cvIdle

\* lua.push_value of a value, after a successful stack check.
PushValue ==
    \E v \in StackItems :
        /\ check_stack(stack, 1)
        /\ stack' = Append(stack, v)
        /\ UNCHANGED ts_op
        /\ OnlyTs

\* lua_pop(state, 1)
PopValue ==
    /\ Len(stack) > 0
    /\ stack' = pop_ref(stack)
    /\ UNCHANGED ts_op
    /\ OnlyTs

Do_to_string ==
    \E v \in ToStringInputs, mm_ok \in BOOLEAN, residue \in 0..MaxResidue, decode_ok \in BOOLEAN :
        LET r == to_string(v, stack, mm_ok, residue, decode_ok)
        IN  /\ stack' = r.stack
            /\ ts_op' = [op |-> "to_string", tag |-> v.tag, ok |-> r.ok,
                         path |-> r.path, entry |-> Len(stack), exit |-> Len(r.stack)]
            /\ OnlyTs

NextToString == PushValue \/ PopValue \/ Do_to_string

SpecToString == InitToString /\ [][NextToString]_vars

\* C1: to_string of a Table, Function, Thread or UserData leaves the
\* operand stack at the depth it had on entry, on every exit path: success,
\* failed stack check, error in the protected call, undecodable string.
C1_ToStringBalanced ==
    (ts_op.op = "to_string" /\ ts_op.tag \in StackTags) =>
        /\ ts_op.exit = ts_op.entry
        /\ ts_op.path \in {"ok", "check_stack", "metamethod", "decode"}

\* C1 witness: the __tostring metamethod of a table raised an error with
\* values below the call on the stack, and the depth is that of entry.
C1_Witness ==
    /\ ts_op.op = "to_string" /\ ts_op.tag = "Table"
    /\ ts_op.path = "metamethod" /\ ~ts_op.ok
    /\ ts_op.entry > 0 /\ ts_op.exit = ts_op.entry

(***************************************************************************)
(* SpecRef: the reference registry of one VM instance and the handles into *)
(* it.  reg[s] is the state of registry slot s: whether it is occupied and *)
(* how many handles (the anchored one and its clones) are alive.  in_vm    *)
(* says that a VM call is running which a release must not re-enter;       *)
(* pending is the instance's pending-release list.                         *)
(***************************************************************************)
MaxSlots == 2
MaxRefs == 2
RegSlots == 1..MaxSlots
FreeSlot == [occ |-> FALSE, rc |-> 0]
OnlyRef == UNCHANGED <<valVars, ts_op, lockVars, mvVars, cvVars, pp>>

InitRef ==
    /\ ppIdle
    /\ reg = [s \in RegSlots |-> FreeSlot]
    /\ pending = {} /\ in_vm = FALSE /\ ref_op = NoOp
    /\ stack = <<>> /\ ts_op = NoOp
    /\ valIdle /\ lockIdle /\ mvIdle /\ cvIdle

\* An object is pushed on the operand stack, to be anchored.
PushObject ==
    /\ check_stack(stack, 1)
    /\ stack' = Append(stack, [tag |-> "Object"])
    /\ UNCHANGED <<reg, pending, in_vm, ref_op>>
    /\ OnlyRef

\* anchor_top_of_stack: the new state of the registry and of the stack.
anchor(rg, stk, s) ==
    [reg |-> [rg EXCEPT ![s] = [occ |-> TRUE, rc |-> 1]], stack |-> pop_ref(stk)]

Do_anchor ==
    \E s \in RegSlots :
        /\ Len(stack) > 0
        /\ ~reg[s].occ
        /\ reg' = anchor(reg, stack, s).reg
        /\ stack' = anchor(reg, stack, s).stack
        /\ ref_op' = [op |-> "anchor", slot |-> s]
        /\ UNCHANGED <<pending, in_vm>>
        /\ OnlyRef

\* clone: one more handle on the slot.
clone(rg, s) == [rg EXCEPT ![s].rc = @ + 1]

Do_clone ==
    \E s \in RegSlots :
        /\ reg[s].rc >= 1 /\ reg[s].rc < MaxRefs
        /\ reg' = clone(reg, s)
        /\ ref_op' = [op |-> "clone", slot |-> s]
        /\ UNCHANGED <<stack, pending, in_vm>>
        /\ OnlyRef

\* A mutant: the slot is released by the drop of any handle on it.
drop_ref_ReleaseAlways(rg, pend, busy, s) ==
    IF busy
    THEN [reg |-> [rg EXCEPT ![s].rc = @ - 1], pending |-> pend \cup {s}]
    ELSE [reg |-> [rg EXCEPT ![s] = [occ |-> FALSE, rc |-> rg[s].rc - 1]],
          pending |-> pend]

\* drop of a handle: the count goes down; at zero the slot is released, at
\* once when the VM can be entered, else through the pending-release list.
drop_ref(rg, pend, busy, s) ==
    IF rg[s].rc > 1
    THEN [reg |-> [rg EXCEPT ![s].rc = @ - 1], pending |-> pend]
    ELSE IF busy
         THEN [reg |-> [rg EXCEPT ![s].rc = 0], pending |-> pend \cup {s}]
         ELSE [reg |-> [rg EXCEPT ![s] = FreeSlot], pending |-> pend]

Do_drop_ref ==
    \E s \in RegSlots :
        /\ reg[s].rc >= 1
        /\ reg' = drop_ref(reg, pending, in_vm, s).reg
        /\ pending' = drop_ref(reg, pending, in_vm, s).pending
        /\ ref_op' = [op |-> "drop", slot |-> s]
        /\ UNCHANGED <<stack, in_vm>>
        /\ OnlyRef

\* A host -> VM call begins: until it returns, releases are queued.
EnterVM ==
    /\ ~in_vm
    /\ in_vm' = TRUE
    /\ ref_op' = [op |-> "enter_vm", slot |-> 0]
    /\ UNCHANGED <<reg, pending, stack>>
    /\ OnlyRef

\* The pending-release list is flushed: every queued slot is released.
flush(rg, pend) == [s \in DOMAIN rg |-> IF s \in pend THEN FreeSlot ELSE rg[s]]

\* The safe point: before the host -> VM call returns control.
LeaveVM ==
    /\ in_vm
    /\ in_vm' = FALSE
    /\ reg' = flush(reg, pending)
    /\ pending' = {}
    /\ ref_op' = [op |-> "leave_vm", slot |-> 0, flushed |-> pending]
    /\ UNCHANGED stack
    /\ OnlyRef

NextRef == PushObject \/ Do_anchor \/ Do_clone \/ Do_drop_ref \/ EnterVM \/ LeaveVM

SpecRef == InitRef /\ [][NextRef]_vars

\* A slot with a live handle is occupied; an occupied slot with no handle
\* left is on the pending-release list, and only such slots are on it.
C2_SlotInv ==
    \A s \in DOMAIN reg :
        /\ reg[s].rc >= 1 => reg[s].occ
        /\ (reg[s].occ /\ reg[s].rc = 0) <=> s \in pending

\* One step: a clone (a count rising from 1 or more) changes no slot's
\* occupancy, nor the pending list, nor the operand stack; a slot is
\* released only with no handle left, and the step into a safe point
\* releases every queued slot.
C2_Step ==
    /\ (\E s \in DOMAIN reg : reg[s].rc >= 1 /\ reg'[s].rc = reg[s].rc + 1)
          => /\ \A t \in DOMAIN reg : reg'[t].occ = reg[t].occ
             /\ pending' = pending /\ stack' = stack /\ in_vm' = in_vm
    /\ \A s \in DOMAIN reg :
          (reg[s].occ /\ ~reg'[s].occ)
              => /\ reg'[s].rc = 0
                 /\ \/ (reg[s].rc = 1 /\ ~in_vm)
                    \/ (s \in pending /\ in_vm /\ ~in_vm')
    /\ (in_vm /\ ~in_vm')
          => /\ pending' = {}
             /\ \A s \in pending : ~reg'[s].occ

\* C2: a registry slot stays occupied while a handle on it is alive, clone
\* never touches the VM, and at count zero the slot is released at once or
\* queued on the pending-release list and released at the next safe point.
C2_HandleLifetime == []C2_SlotInv /\ [][C2_Step]_vars

\* C2 witness: a flush released a slot whose last handle was dropped during
\* a VM call, while the other slot, with two handles, stays occupied.
C2_Witness ==
    /\ ref_op.op = "leave_vm" /\ ref_op.flushed # {}
    /\ \A s \in ref_op.flushed : ~reg[s].occ
    /\ \E s \in DOMAIN reg : reg[s].occ /\ reg[s].rc >= 2

(***************************************************************************)
(* SpecLock: the reentrant lock of one VM instance in shared mode.  A      *)
(* thread that wants to touch the VM waits for the lock; inside a VM       *)
(* operation the VM may invoke a host callback on the same thread, and the *)
(* callback may itself start a VM operation.  tpc[t] is the position of    *)
(* thread t and the number of VM operations it is inside; owner is the     *)
(* thread holding the lock (0: nobody), holds its acquisition count.       *)
(***************************************************************************)
NumThreads == 3
MaxNest == 4
Threads == 1..NumThreads
OnlyLock == UNCHANGED <<valVars, tsVars, refVars, mvVars, cvVars, pp>>

InitLock ==
    /\ ppIdle
    /\ owner = 0 /\ holds = 0
    /\ tpc = [t \in Threads |-> [st |-> "idle", nest |-> 0]]
    /\ valIdle /\ tsIdle /\ refIdle /\ mvIdle /\ cvIdle

\* A thread, idle or inside a callback, starts a VM-touching operation.
Request(t) ==
    /\ tpc[t].st \in {"idle", "callback"}
    /\ tpc[t].nest < MaxNest
    /\ tpc' = [tpc EXCEPT ![t].st = "waiting"]
    /\ UNCHANGED <<owner, holds>>
    /\ OnlyLock

\* A mutant: a lock that is not reentrant.
CanLock_NotReentrant(own, t) == own = 0

\* ReentrantMutex::lock returns when the lock is free or held by the caller.
CanLock(own, t) == own = 0 \/ own = t

Acquire(t) ==
    /\ tpc[t].st = "waiting"
    /\ CanLock(owner, t)
    /\ owner' = t
    /\ holds' = holds + 1
    /\ tpc' = [tpc EXCEPT ![t] = [st |-> "op", nest |-> @.nest + 1]]
    /\ OnlyLock

\* The VM, inside an operation, invokes a host callback on the same thread.
Callback(t) ==
    /\ tpc[t].st = "op"
    /\ tpc' = [tpc EXCEPT ![t].st = "callback"]
    /\ UNCHANGED <<owner, holds>>
    /\ OnlyLock

\* The operation (or the callback and the operation that invoked it) ends:
\* the guard is dropped.
Release(t) ==
    /\ tpc[t].st \in {"op", "callback"}
    /\ holds' = holds - 1
    /\ owner' = IF holds = 1 THEN 0 ELSE owner
    /\ tpc' = [tpc EXCEPT ![t] = [st |-> IF @.nest = 1 THEN "idle" ELSE "callback",
                                  nest |-> @.nest - 1]]
    /\ OnlyLock

NextLock == \E t \in Threads : Request(t) \/ Acquire(t) \/ Callback(t) \/ Release(t)

SpecLock == InitLock /\ [][NextLock]_vars

InsideVM(t) == tpc[t].nest > 0

\* C3: at most one thread is inside VM operations, it is the holder of the
\* lock, and a thread waiting for the lock it holds itself (a callback
\* re-entering the VM) can always take it.
C3_ReentrantExclusion ==
    /\ \A t, u \in DOMAIN tpc : (InsideVM(t) /\ InsideVM(u)) => t = u
    /\ \A t \in DOMAIN tpc : InsideVM(t) => (owner = t /\ holds = tpc[t].nest)
    /\ \A t \in DOMAIN tpc :
          (tpc[t].st = "waiting" /\ InsideVM(t)) => ENABLED Acquire(t)

\* C3 witness: thread 1, inside a callback of its own VM operation, has
\* entered a second VM operation while thread 2 waits for the lock.
C3_Witness ==
    /\ tpc # <<>>
    /\ tpc[1].st = "op" /\ tpc[1].nest = 2 /\ owner = 1 /\ holds = 2
    /\ tpc[2].st = "waiting" /\ tpc[2].nest = 0

(***************************************************************************)
(* SpecMulti: MultiValue containers are created, filled, cloned, consumed  *)
(* and dropped against the buffer pools of the VM instances.  conts[c] is  *)
(* the container in place c (NoCont: none), pool[vm] the pool of instance  *)
(* vm, mv_log the last operation.                                          *)
(***************************************************************************)
MaxLen == 2
MaxCap == 1
MaxBufs == 2
ContIds == {1, 2}
NoCont == [made |-> "none"]
MVItems == {Integer(0, 1)}
SeqsUpTo(S, n) == UNION {[1..k -> S] : k \in 0..n}
Live(c) == conts[c] # NoCont
\* Buffers in being: those of the live containers and the pooled ones.
RECURSIVE SumLen(_, _)
SumLen(f, S) ==
    IF S = {} THEN 0
    ELSE LET x == CHOOSE y \in S : TRUE IN Len(f[x]) + SumLen(f, S \ {x})
NumBufs == Cardinality({c \in ContIds : Live(c)}) + SumLen(pool, DOMAIN pool)
OnlyMv == UNCHANGED <<valVars, tsVars, refVars, lockVars, cvVars, pp>>

InitMulti ==
    /\ ppIdle
    /\ conts = [c \in ContIds |-> NoCont]
    /\ pool = [vm \in VMs |-> <<>>]
    /\ mv_log = NoOp
    /\ valIdle /\ tsIdle /\ refIdle /\ lockIdle /\ cvIdle

Do_new ==
    \E c \in ContIds :
        /\ ~Live(c) /\ NumBufs < MaxBufs
        /\ conts' = [conts EXCEPT ![c] = new]
        /\ mv_log' = [op |-> "new"]
        /\ UNCHANGED pool
        /\ OnlyMv

Do_from_iter ==
    \E c \in ContIds, items \in SeqsUpTo(MVItems, MaxLen) :
        /\ ~Live(c) /\ NumBufs < MaxBufs
        /\ conts' = [conts EXCEPT ![c] = from_iter(items)]
        /\ mv_log' = [op |-> "from_iter"]
        /\ UNCHANGED pool
        /\ OnlyMv

Do_with_lua_and_capacity ==
    \E c \in ContIds, lua \in VMs, capacity \in 0..MaxCap :
        LET r == with_lua_and_capacity(pool[lua], lua, capacity)
        IN  /\ ~Live(c)
            /\ pool[lua] # <<>> \/ NumBufs < MaxBufs
            /\ conts' = [conts EXCEPT ![c] = r.mv]
            /\ pool' = [pool EXCEPT ![lua] = r.pool]
            /\ mv_log' = [op |-> "with_lua", c |-> c, lua |-> lua,
                          capacity |-> capacity, from_pool |-> r.from_pool,
                          grew |-> r.grew, len |-> Len(r.mv.deque.items),
                          after_drop |-> IF mv_log.op = "drop" /\ mv_log.lua = lua
                                         THEN [cap |-> mv_log.cap, len |-> mv_log.len]
                                         ELSE [cap |-> -1, len |-> 0]]
            /\ OnlyMv

\* push_back through DerefMut
Do_push_back ==
    \E c \in ContIds, v \in MVItems :
        /\ Live(c) /\ Len(conts[c].deque.items) < MaxLen
        /\ conts' = [conts EXCEPT ![c].deque = push_back(@, v)]
        /\ mv_log' = [op |-> "push_back"]
        /\ UNCHANGED pool
        /\ OnlyMv

Do_clone_mv ==
    \E c \in ContIds, d \in ContIds :
        /\ Live(c) /\ ~Live(d) /\ NumBufs < MaxBufs
        /\ conts' = [conts EXCEPT ![d] = clone_mv(conts[c])]
        /\ mv_log' = [op |-> "clone"]
        /\ UNCHANGED pool
        /\ OnlyMv

Do_drop ==
    \E c \in ContIds :
        /\ Live(c)
        /\ pool' = drop(conts[c], pool)
        /\ conts' = [conts EXCEPT ![c] = NoCont]
        /\ mv_log' = [op |-> "drop", lua |-> conts[c].lua,
                      made |-> conts[c].made, cap |-> conts[c].deque.cap,
                      len |-> Len(conts[c].deque.items)]
        /\ OnlyMv

Do_into_iter ==
    \E c \in ContIds :
        /\ Live(c)
        /\ pool' = into_iter(conts[c], pool).pools
        /\ conts' = [conts EXCEPT ![c] = NoCont]
        /\ mv_log' = [op |-> "into_iter", lua |-> conts[c].lua,
                      made |-> conts[c].made,
                      items |-> into_iter(conts[c], pool).items]
        /\ OnlyMv

NextMulti ==
    \/ Do_new \/ Do_from_iter \/ Do_with_lua_and_capacity \/ Do_push_back
    \/ Do_clone_mv \/ Do_drop \/ Do_into_iter

SpecMulti == InitMulti /\ [][NextMulti]_vars

\* One step of SpecMulti: the pool of an instance grows, by one buffer, in
\* the drop of a container made with that instance and in no other step.
C5_Step ==
    LET op == mv_log'.op
        Grown(vm) == Len(pool'[vm]) > Len(pool[vm])
    IN  /\ op = "drop" =>
              /\ mv_log'.lua # 0 <=> mv_log'.made = "with_lua"
              /\ \A vm \in VMs :
                    IF vm = mv_log'.lua
                    THEN Len(pool'[vm]) = Len(pool[vm]) + 1
                    ELSE pool'[vm] = pool[vm]
        /\ op \in {"new", "from_iter", "into_iter", "push_back", "clone"}
              => pool' = pool
        /\ op = "with_lua" => \A vm \in VMs : ~Grown(vm)

\* C5: a MultiValue's buffer is returned to an instance's pool exactly when
\* the container was made by with_lua_and_capacity and is dropped; one made
\* by new or from_iter, and one consumed by into_iter, return none.
C5_PoolReturn == [][C5_Step]_vars

\* C5 witness: a container made by with_lua_and_capacity was dropped and
\* its buffer is in the pool of its instance.
C5_Witness ==
    /\ mv_log.op = "drop" /\ mv_log.made = "with_lua" /\ mv_log.lua # 0
    /\ pool[mv_log.lua] # <<>>
    /\ pool[mv_log.lua][Len(pool[mv_log.lua])].cap = mv_log.cap

\* C6: with_lua_and_capacity right after the drop of a container of
\* capacity N of the same instance, asking for no more than N, takes the
\* pooled buffer and does not reallocate it.
C6_PoolReuse ==
    (mv_log.op = "with_lua" /\ mv_log.after_drop.cap >= 0
        /\ mv_log.capacity <= mv_log.after_drop.cap)
        => /\ mv_log.from_pool /\ ~mv_log.grew
           /\ conts[mv_log.c].deque.cap = mv_log.after_drop.cap

\* C6 witness: a buffer with capacity was dropped while another buffer was
\* in the pool, and taken again for a request of no more than its capacity.
C6_Witness ==
    /\ mv_log.op = "with_lua" /\ mv_log.after_drop.cap >= 1
    /\ mv_log.capacity >= 1 /\ mv_log.capacity <= mv_log.after_drop.cap
    /\ mv_log.from_pool /\ ~mv_log.grew
    /\ pool[mv_log.lua] # <<>>

\* C7: every container with_lua_and_capacity returns is empty, also when
\* its buffer comes from the pool.
C7_FreshEmpty ==
    mv_log.op = "with_lua" =>
        /\ mv_log.len = 0
        /\ conts[mv_log.c].deque.items = <<>>

\* C7 witness: the buffer of a container dropped with values in it was
\* taken from the pool, and the new container is empty.
C7_Witness ==
    /\ mv_log.op = "with_lua" /\ mv_log.from_pool
    /\ mv_log.after_drop.cap >= 0 /\ mv_log.after_drop.len > 0
    /\ conts[mv_log.c].deque.items = <<>>

(***************************************************************************)
(* SpecExtend: extend_from_values on a container of any content, with      *)
(* every iterator of up to MaxIter items, each Ok(value) or Err.           *)
(***************************************************************************)
MaxIter == 3
ExtItems == {Nil, Integer(0, 1)}
IterItems == {OkItem(v) : v \in ExtItems} \cup {ErrItem(1)}

InitExtend ==
    /\ ppIdle
    /\ \E items \in SeqsUpTo(ExtItems, MaxLen) :
          conts = [c \in ContIds |-> IF c = 1 THEN from_iter(items) ELSE NoCont]
    /\ pool = [vm \in VMs |-> <<>>]
    /\ mv_log = NoOp
    /\ valIdle /\ tsIdle /\ refIdle /\ lockIdle /\ cvIdle

Do_extend_from_values ==
    \E c \in ContIds, iter \in SeqsUpTo(IterItems, MaxIter) :
        LET r == extend_from_values(conts[c].deque, iter, 1)
        IN  /\ Live(c) /\ Len(conts[c].deque.items) <= MaxLen
            /\ conts' = [conts EXCEPT ![c].deque = r.deque]
            /\ mv_log' = [op |-> "extend", c |-> c, before |-> conts[c].deque.items,
                          iter |-> iter, ok |-> r.ok, consumed |-> r.consumed,
                          err |-> IF r.ok THEN Nil ELSE r.err]
            /\ UNCHANGED pool
            /\ OnlyMv

\* pop_front through DerefMut
Do_pop_front ==
    \E c \in ContIds :
        /\ Live(c) /\ conts[c].deque.items # <<>>
        /\ conts' = [conts EXCEPT ![c].deque.items = Tail(@)]
        /\ mv_log' = [op |-> "pop_front", c |-> c]
        /\ UNCHANGED pool
        /\ OnlyMv

NextExtend == Do_extend_from_values \/ Do_pop_front

SpecExtend == InitExtend /\ [][NextExtend]_vars

FailedAt(iter) == {i \in 1..Len(iter) : ~iter[i].ok}
FirstFailure(iter) ==
    IF FailedAt(iter) = {} THEN Len(iter) + 1
    ELSE CHOOSE i \in FailedAt(iter) : \A k \in FailedAt(iter) : i <= k

\* C9: extend_from_values appends the items before the first failure to
\* the back, in order, returns that failure having taken no item after it,
\* and with no failure appends every item and returns Ok.
C9_ExtendStopsAtFailure ==
    mv_log.op = "extend" =>
        LET it == mv_log.iter
            n == FirstFailure(it)
        IN  /\ conts[mv_log.c].deque.items
                  = mv_log.before \o [i \in 1..(n - 1) |-> it[i].v]
            /\ n > Len(it) => (mv_log.ok /\ mv_log.consumed = Len(it))
            /\ n <= Len(it) =>
                  (~mv_log.ok /\ mv_log.err = it[n].v /\ mv_log.consumed = n)

\* C9 witness: the second of three items failed: the first was appended to
\* a container that had a value, the third was not taken.
C9_Witness ==
    /\ mv_log.op = "extend" /\ ~mv_log.ok
    /\ Len(mv_log.iter) = 3 /\ mv_log.consumed = 2
    /\ mv_log.before # <<>>
    /\ Len(conts[mv_log.c].deque.items) = Len(mv_log.before) + 1

(***************************************************************************)
(* SpecConv: the multi-value conversion of every list of up to MaxVals     *)
(* values by consumers that expect up to MaxVals values.                   *)
(***************************************************************************)
MaxVals == 5
CvItems == {Integer(0, 1), Boolean(TRUE)}
OnlyCv == UNCHANGED <<valVars, tsVars, refVars, lockVars, mvVars, pp>>

InitConv ==
    /\ ppIdle
    /\ cv_values \in SeqsUpTo(CvItems, MaxVals)
    /\ call = NoOp
    /\ cv_op = NoOp
    /\ valIdle /\ tsIdle /\ refIdle /\ lockIdle /\ mvIdle

Do_from_lua_multi ==
    \E k \in 0..MaxVals :
        /\ cv_op' = [op |-> "from_lua_multi", k |-> k,
                     out |-> from_lua_multi(cv_values, k)]
        /\ UNCHANGED <<cv_values, call>>
        /\ OnlyCv

NextConv == Do_from_lua_multi

SpecConv == InitConv /\ [][NextConv]_vars

\* C8: a consumer that expects k values reads the values given in their
\* positions, Nil in the positions past the last value given, and nothing
\* of the values past position k.
C8_PadAndTruncate ==
    cv_op.op = "from_lua_multi" =>
        /\ Len(cv_op.out) = cv_op.k
        /\ \A i \in 1..cv_op.k :
              cv_op.out[i] = IF i <= Len(cv_values) THEN cv_values[i] ELSE Nil

\* C8 witness: three values read by a consumer expecting five: the last
\* two positions are Nil.
C8_Witness ==
    /\ cv_op.op = "from_lua_multi" /\ Len(cv_values) = 3 /\ cv_op.k = 5
    /\ cv_op.out[3] = cv_values[3] /\ cv_op.out[4] = Nil /\ cv_op.out[5] = Nil

(***************************************************************************)
(* SpecArgs: the conversions in argument position and from the operand     *)
(* stack.  Init draws a call (the operation and its arguments), the stack  *)
(* of instance ArgVM it finds and that instance's buffer pool; the action  *)
(* of the operation makes the call and records its result in cv_op.        *)
(***************************************************************************)
MaxPos == 2
ArgVM == CHOOSE vm \in VMs : TRUE
ArgItems == {Integer(0, 1), Boolean(TRUE)}
ArgNames == {None, Some("f")}
Tuples ==
    {<<>>, <<"Integer">>, <<"Value", "Integer">>, <<"Integer", "Boolean">>,
     <<"Value", "Value", "Integer">>}
Stacks == SeqsUpTo(ArgItems, StackLimit)
\* The pool holds no buffer, or one that an earlier container left.
ArgPools == {<<>>, <<Buf(1, <<>>)>>}
OnlyArgs == UNCHANGED <<valVars, ts_op, refVars, lockVars, conts, mv_log, cv_values, call, pp>>

ArgCalls ==
    [op : {"from_lua_arg"}, value : ArgItems, i : 1..MaxPos, to : ArgNames,
     T : Targets]
    \cup [op : {"from_stack_arg"}, idx : (1..StackLimit) \cup {-k : k \in 1..StackLimit},
          i : 1..MaxPos, to : ArgNames, T : Targets]
    \cup [op : {"from_lua_args"}, items : SeqsUpTo(ArgItems, MaxLen), i : 1..MaxPos,
          to : ArgNames, Ts : Tuples]
    \cup [op : {"from_stack_multi"}, nvals : 0..StackLimit, Ts : Tuples]
    \cup [op : {"from_stack_args"}, nvals : 0..StackLimit, i : 1..MaxPos,
          to : ArgNames, Ts : Tuples]
    \cup [op : {"push_into_stack_multi"}, items : SeqsUpTo(ArgItems, MaxLen),
          converts : BOOLEAN, fail_at : 0..MaxLen]

\* What a call requires of the stack it is made on.
ValidCall(c, stk) ==
    CASE c.op = "from_stack_arg" -> (IF c.idx > 0 THEN c.idx ELSE -c.idx) <= Len(stk)
      [] c.op \in {"from_stack_multi", "from_stack_args"} -> c.nvals <= Len(stk)
      [] c.op = "push_into_stack_multi" -> c.fail_at <= Len(c.items)
      [] OTHER -> stk = <<>>

InitArgs ==
    /\ ppIdle
    /\ stack \in Stacks
    /\ call \in ArgCalls
    /\ ValidCall(call, stack)
    /\ pool \in [VMs -> ArgPools]
    /\ \A vm \in VMs : vm # ArgVM => pool[vm] = <<>>
    /\ call.op \in {"from_lua_arg", "from_stack_arg", "from_lua_args",
                     "push_into_stack_multi"}
          => pool[ArgVM] = <<>>
    /\ cv_op = NoOp
    /\ valIdle /\ ts_op = NoOp /\ refIdle /\ lockIdle
    /\ conts = <<>> /\ mv_log = NoOp /\ cv_values = <<>>

Do_from_lua_arg ==
    /\ call.op = "from_lua_arg"
    /\ cv_op' = [op |-> "from_lua_arg", value |-> call.value,
                 res |-> from_lua_arg(call.value, call.i, call.to, call.T)]
    /\ UNCHANGED <<stack, pool>>
    /\ OnlyArgs

Do_from_stack_arg ==
    /\ call.op = "from_stack_arg"
    /\ cv_op' = [op |-> "from_stack_arg",
                 value |-> IF call.idx > 0 THEN stack[call.idx]
                           ELSE stack[Len(stack) + 1 + call.idx],
                 res |-> from_stack_arg(stack, call.idx, call.i, call.to, call.T)]
    /\ UNCHANGED <<stack, pool>>
    /\ OnlyArgs

Do_from_lua_args ==
    /\ call.op = "from_lua_args"
    /\ cv_op' = [op |-> "from_lua_args", handed |-> call.items,
                 res |-> from_lua_args(from_iter(call.items), call.i, call.to, call.Ts)]
    /\ UNCHANGED <<stack, pool>>
    /\ OnlyArgs

\* The container handed to from_lua_multi ends there: it is dropped, or
\* taken apart by into_iter.
Consume(mv, pools, how) ==
    IF how = "drop" THEN drop(mv, pools) ELSE into_iter(mv, pools).pools

Do_from_stack_multi ==
    /\ call.op = "from_stack_multi" /\ call.nvals <= Len(stack)
    /\ \E how \in {"drop", "into_iter"} :
          LET r == from_stack_multi(stack, pool[ArgVM], ArgVM, call.nvals, call.Ts)
          IN  /\ stack' = r.stack
              /\ pool' = Consume(r.values, [pool EXCEPT ![ArgVM] = r.pool], how)
              /\ cv_op' = [op |-> "from_stack_multi", before |-> stack,
                           handed |-> r.values.deque.items, res |-> r.res]
    /\ OnlyArgs

Do_from_stack_args ==
    /\ call.op = "from_stack_args" /\ call.nvals <= Len(stack)
    /\ \E how \in {"drop", "into_iter"} :
          LET r == from_stack_args(stack, pool[ArgVM], ArgVM, call.nvals, call.i,
                                   call.to, call.Ts)
          IN  /\ stack' = r.stack
              /\ pool' = Consume(r.values, [pool EXCEPT ![ArgVM] = r.pool], how)
              /\ cv_op' = [op |-> "from_stack_args", before |-> stack,
                           handed |-> r.values.deque.items, res |-> r.res]
    /\ OnlyArgs

\* into_lua_multi of the value pushed: a container of its values, or an
\* error.
Do_push_into_stack_multi ==
    /\ call.op = "push_into_stack_multi"
    /\ LET converted == IF call.converts THEN Ok(from_iter(call.items))
                        ELSE Err([kind |-> "ToLuaConversionError"])
           r == push_into_stack_multi(stack, converted, call.fail_at)
       IN  /\ stack' = r.stack
           /\ cv_op' = [op |-> "push_into_stack_multi", before |-> stack,
                        res |-> r.res]
    /\ UNCHANGED pool
    /\ OnlyArgs

NextArgs ==
    \/ Do_from_lua_arg \/ Do_from_stack_arg
    \/ Do_from_lua_args \/ Do_from_stack_multi \/ Do_from_stack_args
    \/ Do_push_into_stack_multi

SpecArgs == InitArgs /\ [][NextArgs]_vars

\* C15: from_lua_arg and from_stack_arg return the value of the underlying
\* conversion when it succeeds; when it fails they return a bad-argument
\* error with the given position, the given function name (None when none
\* was given), no argument name, and the conversion's own error as cause.
C15_BadArgument ==
    cv_op.op \in {"from_lua_arg", "from_stack_arg"} =>
        IF call.T = "Value" \/ cv_op.value.tag = call.T
        THEN cv_op.res = [ok |-> TRUE, v |-> cv_op.value]
        ELSE /\ ~cv_op.res.ok
             /\ cv_op.res.err.kind = "BadArgument"
             /\ cv_op.res.err.pos = call.i
             /\ cv_op.res.err.to = call.to
             /\ cv_op.res.err.name = None
             /\ cv_op.res.err.cause = from_lua(cv_op.value, call.T).err
             /\ cv_op.res.err.cause.kind = "FromLuaConversionError"

\* C15 witness: from_stack_arg read a Boolean from below the top of the
\* stack as argument 2 of "f" for an Integer and failed.
C15_Witness ==
    /\ cv_op.op = "from_stack_arg" /\ Len(stack) >= 2
    /\ cv_op.value = Boolean(TRUE) /\ stack[Len(stack)] # Boolean(TRUE)
    /\ call.T = "Integer" /\ call.i = 2 /\ call.to = Some("f")
    /\ ~cv_op.res.ok /\ cv_op.res.err.pos = 2 /\ cv_op.res.err.to = Some("f")

\* Position j of the tuple cannot be converted from the values handed over.
Mismatch(handed, Ts, j) ==
    /\ j \in 1..Len(Ts) /\ Ts[j] # "Value"
    /\ (IF j <= Len(handed) THEN handed[j].tag ELSE "Nil") # Ts[j]

C19_StackMultiPops ==
    cv_op.op = "from_stack_multi" =>
        LET n == Len(cv_op.before)
        IN  /\ stack = SubSeq(cv_op.before, 1, n - call.nvals)
            /\ Len(cv_op.handed) = call.nvals
            /\ \A j \in 1..call.nvals :
                  cv_op.handed[j] = cv_op.before[n - call.nvals + j]

\* C19 witness: two different values were taken off a stack of three, the
\* conversion failed, and one value is left.
C19_Witness ==
    /\ cv_op.op = "from_stack_multi" /\ call.nvals = 2 /\ Len(cv_op.before) = 3
    /\ cv_op.handed[1] # cv_op.handed[2] /\ ~cv_op.res.ok
    /\ Len(stack) = 1

\* C20: push_into_stack_multi either succeeds, the stack being the stack on
\* entry with the container's values on top in their order and the count
\* returned their number, or fails with the stack as deep as on entry.
C20_PushAllOrNothing ==
    cv_op.op = "push_into_stack_multi" =>
        IF cv_op.res.ok
        THEN /\ stack = cv_op.before \o call.items
             /\ cv_op.res.v = Len(call.items)
        ELSE Len(stack) = Len(cv_op.before)

(***************************************************************************)
(* SpecPretty: Value::fmt_pretty of a table in a heap of NumTables tables  *)
(* that hold each other as values in every possible way, themselves        *)
(* included.  pp.heap[t] are the tables held by table t, pp.frames the     *)
(* printer's frames (the first is the current one), pp.visited the visited *)
(* set, pp.out what was written, pp.descents how often each table's entries *)
(* were printed, pp.last the last step.                                    *)
(***************************************************************************)
NumTables == 2
Tables == 1..NumTables
TableValue(t) == Handle("Table", ArgVM, t)
OnlyPretty == UNCHANGED <<valVars, tsVars, refVars, lockVars, mvVars, cvVars>>

InitPretty ==
    /\ \E heap \in [Tables -> SUBSET Tables], root \in Tables, recursive \in BOOLEAN :
          pp = [heap |-> heap, frames |-> <<ValueFrame(TableValue(root), recursive)>>,
                visited |-> {}, out |-> <<>>,
                descents |-> [t \in Tables |-> 0], last |-> NoOp]
    /\ valIdle /\ tsIdle /\ refIdle /\ lockIdle /\ mvIdle /\ cvIdle

\* The current frame is a table and the recursive arm matches.
FmtTable_Descend ==
    /\ pp.frames # <<>> /\ Head(pp.frames).kind = "value"
    /\ fmt_pretty_descends(Head(pp.frames).v, Head(pp.frames).recursive, pp.visited)
    /\ LET f == Head(pp.frames)
           t == f.v.ref.slot
           entries == [j \in 1..Cardinality(pp.heap[t]) |->
                          TableValue(SortedSeq(pp.heap[t])[j])]
           r == Table_fmt_pretty(f.v, entries, pp.visited)
       IN  pp' = [pp EXCEPT !.frames = r.frames \o Tail(pp.frames),
                            !.visited = r.visited,
                            !.out = Append(@, r.out),
                            !.descents[t] = @ + 1,
                            !.last = [op |-> "descend", t |-> t,
                                      recursive |-> f.recursive,
                                      seen |-> to_pointer(f.v).val \in pp.visited]]
    /\ OnlyPretty

\* The current frame is a table and the recursive arm does not match.
FmtTable_Summary ==
    /\ pp.frames # <<>> /\ Head(pp.frames).kind = "value"
    /\ ~fmt_pretty_descends(Head(pp.frames).v, Head(pp.frames).recursive, pp.visited)
    /\ LET f == Head(pp.frames)
       IN  pp' = [pp EXCEPT !.frames = Tail(pp.frames),
                            !.out = Append(@, fmt_pretty_summary(f.v)),
                            !.last = [op |-> "summary", t |-> f.v.ref.slot,
                                      recursive |-> f.recursive,
                                      seen |-> to_pointer(f.v).val \in pp.visited]]
    /\ OnlyPretty

\* The entries of a table are printed: its closing brace is written.
FmtTable_Close ==
    /\ pp.frames # <<>> /\ Head(pp.frames).kind = "close"
    /\ pp' = [pp EXCEPT !.frames = Tail(pp.frames),
                        !.out = Append(@, [text |-> "}", ptr |-> to_pointer(Head(pp.frames).v).val]),
                        !.last = [op |-> "close"]]
    /\ OnlyPretty

NextPretty == FmtTable_Descend \/ FmtTable_Summary \/ FmtTable_Close

\* The printer is sequential code: it takes its next step.
SpecPretty == InitPretty /\ [][NextPretty]_vars /\ WF_vars(NextPretty)

C18_Guarded ==
    /\ \A t \in Tables : pp.descents[t] <= 1
    /\ pp.last.op = "descend" => (pp.last.recursive /\ ~pp.last.seen)
    /\ (pp.last.op \in {"descend", "summary"} /\ (pp.last.seen \/ ~pp.last.recursive))
          => /\ pp.last.op = "summary"
             /\ pp.out[Len(pp.out)] = [text |-> "table: ", ptr |-> to_pointer(TableValue(pp.last.t)).val]

C18_Done == pp.frames = <<>>

\* C18: pretty-printing a table ends, whatever tables hold each other: the
\* entries of no table are printed twice; a table met in recursive mode
\* with its pointer in the visited set, and every table met in
\* non-recursive mode, is written as "table: <pointer>" and not entered.
C18_PrettyTerminates == []C18_Guarded /\ <>C18_Done

\* C18 witness: a table that holds itself was printed in recursive mode:
\* its entries were printed once, the inner occurrence was written as the
\* placeholder, and the printer is done.
C18_Witness ==
    /\ pp # NoOp /\ pp.frames = <<>>
    /\ \E t \in Tables :
          /\ t \in pp.heap[t] /\ pp.descents[t] = 1
          /\ \E j \in 1..Len(pp.out) :
                pp.out[j] = [text |-> "table: ", ptr |-> to_pointer(TableValue(t)).val]

====
